---- MODULE Spec2Model ----
(***************************************************************************)
(* Over-Engineered Othello: the Board class (construction, capture-ray     *)
(* scan, move generation, placement) and the turn loop of playGame, as     *)
(* found in the final single-file version of the game.                     *)
(***************************************************************************)
EXTENDS Integers, Sequences, FiniteSets, TLC

\* ---------------------------------------------------------------- constants
EMPTY == 0
PLAYER_X == 1
PLAYER_O == 2
MinBoardSize == 4

\* ------------------------------------------------------------------- bounds
\* largest board size explored
MaxBoardSize == 5
\* smallest size argument handed to the Board constructor
MinSizeTried == 2
\* opening placements explored on every selector input on a board of
\* MinBoardSize (see OpeningPlies); later placements are explored on one
\* input each
MaxPlies == 3
\* the values handed to the AVLTree under test are 1 .. MaxValue
MaxValue == 3
\* the AVLTree under test holds at most MaxNodes nodes
MaxNodes == 5

VARIABLES
    pc,               \* control point of main / playGame / the Board client
    maxBoardSize,     \* Board::maxBoardSize
    board,            \* Board::board, position -> BoardSquare::value
    currentPlayer,    \* playGame local
    nextPlayer,       \* playGame local
    prevPlayerMoved,  \* playGame local
    gameHistory,      \* playGame local, std::stack<PlayerMove> bottom first
    playerCount,      \* playGame local
    validMoves,       \* playGame local of the current loop iteration
    thrown,           \* exception that left the running function, or "none"
    winner,           \* what showWinner reported, or "none"
    call,             \* arguments of the latest placePiece call, or NoCall
    errorMessage,     \* getPlayerMove local, "" outside getPlayerMove
    selector,         \* the move selector playGame called last, or "none"
    root,             \* AVLTree::root of the tree under test
    returned          \* what the latest AVLTree call returned, or NoReturn

vars == <<pc, maxBoardSize, board, currentPlayer, nextPlayer, prevPlayerMoved,
          gameHistory, playerCount, validMoves, thrown, winner, call,
          errorMessage, selector, root, returned>>

\* ------------------------------------------------------------------ helpers
\* variant: the south entry mistyped as a second east entry
directions_NoSouth ==
    << <<-1, 0>>, <<0, 1>>, <<0, -1>>, <<0, 1>>,
       <<-1, -1>>, <<-1, 1>>, <<1, -1>>, <<1, 1>> >>

directions ==
    << <<-1, 0>>, <<1, 0>>, <<0, -1>>, <<0, 1>>,
       <<-1, -1>>, <<-1, 1>>, <<1, -1>>, <<1, 1>> >>

Positions(n) == (0 .. n - 1) \X (0 .. n - 1)

\* std::pair operator< : the iteration order of std::set / std::map keys
PairLess(a, b) == a[1] < b[1] \/ (a[1] = b[1] /\ a[2] < b[2])

\* a map or board that holds nothing
NoBoard == << >>

\* PlayerMove(player, location)
PlayerMove(player, location) == [thePlayer |-> player, theLocation |-> location]

\* nullptr of an AVLNode pointer
Null == << >>

\* no AVLTree call has returned yet
NoReturn == [op |-> "none", value |-> 0, result |-> Null]

\* no placePiece call made yet
NoCall == << >>

\* the parameters of placePiece
PlaceCall(position, player, toFlip) ==
    [position |-> position, player |-> player, toFlip |-> toFlip]

\* ------------------------------------------------------------- BoardSquare
\* variant: the occupied check is missing
setPiece_Overwrites(value, player) ==
    [threw |-> FALSE, value |-> player]

setPiece(value, player) ==
    IF value # 0
    THEN [threw |-> TRUE, value |-> value]
    ELSE [threw |-> FALSE, value |-> player]

\* variant: the conditional yields the value it tests for
flipPiece_NoToggle(value) ==
    IF value = 0
    THEN [threw |-> TRUE, value |-> value]
    ELSE [threw |-> FALSE, value |-> IF value = 1 THEN 1 ELSE 2]

\* variant: an empty square is flipped to player O without complaint
flipPiece_FlipsEmpty(value) ==
    [threw |-> FALSE, value |-> IF value = 1 THEN 2 ELSE 1]

\* variant: the flip counts the value up
flipPiece_Increment(value) ==
    IF value = 0
    THEN [threw |-> TRUE, value |-> value]
    ELSE [threw |-> FALSE, value |-> value + 1]

\* variant: the flip takes the piece off the square
flipPiece_Clears(value) ==
    IF value = 0
    THEN [threw |-> TRUE, value |-> value]
    ELSE [threw |-> FALSE, value |-> 0]

flipPiece(value) ==
    IF value = 0
    THEN [threw |-> TRUE, value |-> value]
    ELSE [threw |-> FALSE, value |-> IF value = 1 THEN 2 ELSE 1]

\* ------------------------------------------------------------ Board::Board
\* the four setPiece calls of the try block, in order; a throw skips the rest
RECURSIVE SeedCenter(_, _, _)
SeedCenter(b, seeds, i) ==
    IF i > Len(seeds) THEN b
    ELSE LET pos == seeds[i][1]
             r == setPiece(b[pos], seeds[i][2])
         IN IF r.threw THEN b
            ELSE SeedCenter([b EXCEPT ![pos] = r.value], seeds, i + 1)

\* variant: the centre taken as the ceiling of size / 2
BoardCtor_CeilCenter(size) ==
    IF size < MinBoardSize
    THEN [threw |-> "invalid_argument", board |-> NoBoard]
    ELSE LET empty == [p \in Positions(size) |-> EMPTY]
             center == (size + 1) \div 2
             seeds == << <<<<center - 1, center - 1>>, 1>>,
                         <<<<center - 1, center>>, 2>>,
                         <<<<center, center - 1>>, 2>>,
                         <<<<center, center>>, 1>> >>
         IN [threw |-> "none", board |-> SeedCenter(empty, seeds, 1)]

\* variant: the fill loops run to row <= size and col <= size
BoardCtor_OffByOne(size) ==
    IF size < MinBoardSize
    THEN [threw |-> "invalid_argument", board |-> NoBoard]
    ELSE LET empty == [p \in Positions(size + 1) |-> EMPTY]
             center == size \div 2
             seeds == << <<<<center - 1, center - 1>>, 1>>,
                         <<<<center - 1, center>>, 2>>,
                         <<<<center, center - 1>>, 2>>,
                         <<<<center, center>>, 1>> >>
         IN [threw |-> "none", board |-> SeedCenter(empty, seeds, 1)]

\* variant: the size check rejects only sizes below 3
BoardCtor_Accepts3(size) ==
    IF size < MinBoardSize - 1
    THEN [threw |-> "invalid_argument", board |-> NoBoard]
    ELSE LET empty == [p \in Positions(size) |-> EMPTY]
             center == size \div 2
             seeds == << <<<<center - 1, center - 1>>, 1>>,
                         <<<<center - 1, center>>, 2>>,
                         <<<<center, center - 1>>, 2>>,
                         <<<<center, center>>, 1>> >>
         IN [threw |-> "none", board |-> SeedCenter(empty, seeds, 1)]

\* variant: the fourth seed names the square of the first again
BoardCtor_RepeatedSeed(size) ==
    IF size < MinBoardSize
    THEN [threw |-> "invalid_argument", board |-> NoBoard]
    ELSE LET empty == [p \in Positions(size) |-> EMPTY]
             center == size \div 2
             seeds == << <<<<center - 1, center - 1>>, 1>>,
                         <<<<center - 1, center>>, 2>>,
                         <<<<center, center - 1>>, 2>>,
                         <<<<center - 1, center - 1>>, 1>> >>
         IN [threw |-> "none", board |-> SeedCenter(empty, seeds, 1)]

BoardCtor(size) ==
    IF size < MinBoardSize
    THEN [threw |-> "invalid_argument", board |-> NoBoard]
    ELSE LET empty == [p \in Positions(size) |-> EMPTY]
             center == size \div 2
             seeds == << <<<<center - 1, center - 1>>, 1>>,
                         <<<<center - 1, center>>, 2>>,
                         <<<<center, center - 1>>, 2>>,
                         <<<<center, center>>, 1>> >>
         IN [threw |-> "none", board |-> SeedCenter(empty, seeds, 1)]

\* -------------------------------------------------------- Board::placePiece
\* std::for_each over the std::set toFlip: ascending pair order, the first
\* throwing flipPiece ends the call with the earlier flips already made
RECURSIVE flipEach(_, _)
flipEach(b, toFlip) ==
    IF toFlip = {} THEN [threw |-> "none", board |-> b]
    ELSE LET q == CHOOSE x \in toFlip : \A y \in toFlip : x = y \/ PairLess(x, y)
         IN IF q \notin DOMAIN b
            THEN [threw |-> "out_of_range", board |-> b]
            ELSE LET r == flipPiece(b[q])
                 IN IF r.threw
                    THEN [threw |-> "empty_flip", board |-> b]
                    ELSE flipEach([b EXCEPT ![q] = r.value], toFlip \ {q})

\* variant: a failed call hands back the board as it was
placePiece_RollsBack(b, position, player, toFlip) ==
    IF position \notin DOMAIN b
    THEN [threw |-> "out_of_range", board |-> b]
    ELSE LET r == setPiece(b[position], player)
         IN IF r.threw
            THEN [threw |-> "occupied", board |-> b]
            ELSE LET f == flipEach([b EXCEPT ![position] = r.value], toFlip)
                 IN IF f.threw = "none" THEN f
                    ELSE [threw |-> f.threw, board |-> b]

placePiece(b, position, player, toFlip) ==
    IF position \notin DOMAIN b
    THEN [threw |-> "out_of_range", board |-> b]
    ELSE LET r == setPiece(b[position], player)
         IN IF r.threw
            THEN [threw |-> "occupied", board |-> b]
            ELSE flipEach([b EXCEPT ![position] = r.value], toFlip)

\* ----------------------------------------------- Board::findFlippablePieces
\* variant: no break at the anchor, the scan runs on behind it
RECURSIVE scanLoop_PastAnchor(_, _, _, _, _, _)
scanLoop_PastAnchor(b, n, position, player, direction, toFlip) ==
    LET opponent == IF player = 1 THEN 2 ELSE 1
        step == <<position[1] + direction[1], position[2] + direction[2]>>
    IN IF ~(position[1] >= 0 /\ position[1] < n /\
            position[2] >= 0 /\ position[2] < n)
       THEN [piecesToFlip |-> FALSE, toFlip |-> toFlip]
       ELSE LET value == b[position]
            IN IF value = opponent
               THEN scanLoop_PastAnchor(b, n, step, player, direction,
                                        toFlip \cup {position})
               ELSE IF value = player
               THEN LET rest == scanLoop_PastAnchor(b, n, step, player,
                                                    direction, toFlip)
                    IN [piecesToFlip |-> toFlip # {}, toFlip |-> rest.toFlip]
               ELSE [piecesToFlip |-> FALSE, toFlip |-> toFlip]

\* variant: no break at an empty square, the scan steps over it
RECURSIVE scanLoop_OverEmpty(_, _, _, _, _, _)
scanLoop_OverEmpty(b, n, position, player, direction, toFlip) ==
    LET opponent == IF player = 1 THEN 2 ELSE 1
        step == <<position[1] + direction[1], position[2] + direction[2]>>
    IN IF ~(position[1] >= 0 /\ position[1] < n /\
            position[2] >= 0 /\ position[2] < n)
       THEN [piecesToFlip |-> FALSE, toFlip |-> toFlip]
       ELSE LET value == b[position]
            IN IF value = opponent
               THEN scanLoop_OverEmpty(b, n, step, player, direction,
                                       toFlip \cup {position})
               ELSE IF value = player
               THEN [piecesToFlip |-> toFlip # {}, toFlip |-> toFlip]
               ELSE scanLoop_OverEmpty(b, n, step, player, direction, toFlip)

\* variant: the first test reads value != player, an empty square joins the
\* flip path
RECURSIVE scanLoop_EmptyAsOpponent(_, _, _, _, _, _)
scanLoop_EmptyAsOpponent(b, n, position, player, direction, toFlip) ==
    LET step == <<position[1] + direction[1], position[2] + direction[2]>>
    IN IF ~(position[1] >= 0 /\ position[1] < n /\
            position[2] >= 0 /\ position[2] < n)
       THEN [piecesToFlip |-> FALSE, toFlip |-> toFlip]
       ELSE LET value == b[position]
            IN IF value # player
               THEN scanLoop_EmptyAsOpponent(b, n, step, player, direction,
                                             toFlip \cup {position})
               ELSE [piecesToFlip |-> toFlip # {}, toFlip |-> toFlip]

\* variant: at the anchor piecesToFlip is set to true whatever toFlip holds
RECURSIVE scanLoop_AnchorAlwaysTrue(_, _, _, _, _, _)
scanLoop_AnchorAlwaysTrue(b, n, position, player, direction, toFlip) ==
    LET opponent == IF player = 1 THEN 2 ELSE 1
        step == <<position[1] + direction[1], position[2] + direction[2]>>
    IN IF ~(position[1] >= 0 /\ position[1] < n /\
            position[2] >= 0 /\ position[2] < n)
       THEN [piecesToFlip |-> FALSE, toFlip |-> toFlip]
       ELSE LET value == b[position]
            IN IF value = opponent
               THEN scanLoop_AnchorAlwaysTrue(b, n, step, player, direction,
                                              toFlip \cup {position})
               ELSE IF value = player
               THEN [piecesToFlip |-> TRUE, toFlip |-> toFlip]
               ELSE [piecesToFlip |-> FALSE, toFlip |-> toFlip]

\* the while loop, entered with position already stepped once
RECURSIVE scanLoop(_, _, _, _, _, _)
scanLoop(b, n, position, player, direction, toFlip) ==
    LET opponent == IF player = 1 THEN 2 ELSE 1
        step == <<position[1] + direction[1], position[2] + direction[2]>>
    IN IF ~(position[1] >= 0 /\ position[1] < n /\
            position[2] >= 0 /\ position[2] < n)
       THEN [piecesToFlip |-> FALSE, toFlip |-> toFlip]
       ELSE LET value == b[position]
            IN IF value = opponent
               THEN scanLoop(b, n, step, player, direction, toFlip \cup {position})
               ELSE IF value = player
               THEN [piecesToFlip |-> toFlip # {}, toFlip |-> toFlip]
               ELSE [piecesToFlip |-> FALSE, toFlip |-> toFlip]

\* variant: the scan starts on position itself, the first step is missing
findFlippablePieces_NoFirstStep(b, n, position, player, direction) ==
    LET r == scanLoop(b, n, position, player, direction, {})
    IN IF ~r.piecesToFlip
       THEN [piecesToFlip |-> FALSE, toFlip |-> {}]
       ELSE r

\* variant: toFlip is not cleared when no anchor was found
findFlippablePieces_NoClear(b, n, position, player, direction) ==
    LET first == <<position[1] + direction[1], position[2] + direction[2]>>
    IN scanLoop(b, n, first, player, direction, {})

findFlippablePieces(b, n, position, player, direction) ==
    LET first == <<position[1] + direction[1], position[2] + direction[2]>>
        r == scanLoop(b, n, first, player, direction, {})
    IN IF ~r.piecesToFlip
       THEN [piecesToFlip |-> FALSE, toFlip |-> {}]
       ELSE r

\* ----------------------------------------------------- Board::getValidMoves
totalFlippablePieces(b, n, position, player) ==
    UNION { LET r == findFlippablePieces(b, n, position, player, directions[i])
            IN IF r.piecesToFlip THEN r.toFlip ELSE {}
            : i \in 1 .. Len(directions) }

\* variant: every square is scanned, not only the empty ones
getValidMoves_NoEmptyCheck(b, n, player) ==
    LET total == [p \in DOMAIN b |-> totalFlippablePieces(b, n, p, player)]
    IN [p \in {q \in DOMAIN b : total[q] # {}} |-> total[p]]

\* variant: a position is stored also when its set of flips is empty
getValidMoves_KeepsEmptySets(b, n, player) ==
    LET total == [p \in DOMAIN b |->
                    IF b[p] = EMPTY
                    THEN totalFlippablePieces(b, n, p, player)
                    ELSE {}]
    IN [p \in {q \in DOMAIN b : b[q] = EMPTY} |-> total[p]]

getValidMoves(b, n, player) ==
    LET total == [p \in DOMAIN b |->
                    IF b[p] = EMPTY
                    THEN totalFlippablePieces(b, n, p, player)
                    ELSE {}]
    IN [p \in {q \in DOMAIN b : total[q] # {}} |-> total[p]]

\* ------------------------------------------------------- Board::showWinner
countOf(b, v) == Cardinality({p \in DOMAIN b : b[p] = v})

\* variant: the first comparison reads countX >= countO
showWinner_TieToX(b) ==
    LET countX == countOf(b, 1)
        countO == countOf(b, 2)
    IN IF countX >= countO THEN "X"
       ELSE IF countO > countX THEN "O"
       ELSE "draw"

showWinner(b) ==
    LET countX == countOf(b, 1)
        countO == countOf(b, 2)
    IN IF countX > countO THEN "X"
       ELSE IF countO > countX THEN "O"
       ELSE "draw"

\* --------------------------------------------------------------- getAIMove
\* the place of key k in the list `moves` after the sort: the list is built
\* in ascending key order and std::list::sort is stable, so the entries stand
\* by descending flip count and, among equal counts, by ascending key
movesRank(vm, k) ==
    1 + Cardinality({ j \in DOMAIN vm :
                        \/ Cardinality(vm[j]) > Cardinality(vm[k])
                        \/ /\ Cardinality(vm[j]) = Cardinality(vm[k])
                           /\ PairLess(j, k) })

\* the list `moves` after the sort, entries (flipCount, key)
sortedMoves(vm) ==
    [i \in 1 .. Cardinality(DOMAIN vm) |->
        LET k == CHOOSE j \in DOMAIN vm : movesRank(vm, j) = i
        IN <<Cardinality(vm[k]), k>>]

\* operator< of pair<int, pair<int,int>>, the order of the priority queue
MoveLess(a, b) == a[1] < b[1] \/ (a[1] = b[1] /\ PairLess(a[2], b[2]))

\* moveQueue.top(): the greatest element
queueTop(moves) ==
    CHOOSE m \in {moves[i] : i \in 1 .. Len(moves)} :
        \A i \in 1 .. Len(moves) : moves[i] = m \/ MoveLess(moves[i], m)

\* variant: the else branch leaves aiMove as it was value-initialised
getAIMove_NoTop(vm, coin, pick) ==
    LET moves == sortedMoves(vm)
    IN IF coin = 0
       THEN moves[(pick % Len(moves)) + 1][2]
       ELSE <<0, 0>>

\* coin = rand() % 2, pick = the second rand()
getAIMove(vm, coin, pick) ==
    LET moves == sortedMoves(vm)
    IN IF coin = 0
       THEN moves[(pick % Len(moves)) + 1][2]
       ELSE queueTop(moves)[2]

\* ----------------------------------------------------------- getPlayerMove
\* a line from which std::cin cannot extract two ints
Malformed == << >>

\* variant: the look-up in validMoves is missing
readPlayerMove_NoMapCheck(typed, maxSize, vm) ==
    IF typed = Malformed
    THEN [accepted |-> FALSE, location |-> typed, error |-> "invalid_input"]
    ELSE
    LET loc == <<typed[1] - 1, typed[2] - 1>>
    IN IF loc[1] < 0 \/ loc[1] >= maxSize \/ loc[2] < 0 \/ loc[2] >= maxSize
       THEN [accepted |-> FALSE, location |-> loc, error |-> "out_of_bounds"]
       ELSE [accepted |-> TRUE, location |-> loc, error |-> ""]

\* one pass of the input loop on what was typed: Malformed, or a pair of
\* ints (1-based): the accepted location, or the rejection with the
\* errorMessage it sets
readPlayerMove(typed, maxSize, vm) ==
    IF typed = Malformed
    THEN [accepted |-> FALSE, location |-> typed, error |-> "invalid_input"]
    ELSE
    LET loc == <<typed[1] - 1, typed[2] - 1>>
    IN IF loc[1] < 0 \/ loc[1] >= maxSize \/ loc[2] < 0 \/ loc[2] >= maxSize
       THEN [accepted |-> FALSE, location |-> loc, error |-> "out_of_bounds"]
       ELSE IF loc \notin DOMAIN vm
       THEN [accepted |-> FALSE, location |-> loc, error |-> "invalid_move"]
       ELSE [accepted |-> TRUE, location |-> loc, error |-> ""]

\* ----------------------------------------------------- explored inputs
\* the least key of a map, the first entry printed by printPossibleMoves
firstKey(vm) == CHOOSE k \in DOMAIN vm : \A j \in DOMAIN vm : k = j \/ PairLess(k, j)

\* length of the opening explored on every input: MaxPlies placements on a
\* board of MinBoardSize, one placement less for each further row
OpeningPlies(n) ==
    IF MaxPlies > n - MinBoardSize THEN MaxPlies - (n - MinBoardSize) ELSE 0

\* inputs of the human provider explored: all of them in the opening, the
\* one naming the first listed move afterwards
TypedExplored(typed, plies, vm, n) ==
    \/ plies < OpeningPlies(n)
    \/ typed # Malformed /\ <<typed[1] - 1, typed[2] - 1>> = firstKey(vm)

\* draws of the agent explored: all of them in the opening, the max-flip
\* branch afterwards
DrawExplored(coin, pick, plies, n) ==
    plies < OpeningPlies(n) \/ (coin = 1 /\ pick = 0)

\* variant: the threshold leaves out the four seeded cells
areValidMovesLeftForPlayer_CountsSeeds(history, maxSize, player) ==
    ~(Len(history) >= maxSize * maxSize - 4)

\* Board::areValidMovesLeftForPlayer: false once the history is as long as
\* the board has cells; the player argument is not read
areValidMovesLeftForPlayer(history, maxSize, player) ==
    ~(Len(history) >= maxSize * maxSize)

\* ===================================================== main / playGame loop
Init ==
    /\ pc = "start"
    /\ maxBoardSize = 0
    /\ board = NoBoard
    /\ currentPlayer = 1
    /\ nextPlayer = 2
    /\ prevPlayerMoved = TRUE
    /\ gameHistory = << >>
    /\ playerCount = 0
    /\ validMoves = << >>
    /\ thrown = "none"
    /\ winner = "none"
    /\ call = NoCall
    /\ errorMessage = ""
    /\ selector = "none"
    /\ root = Null
    /\ returned = NoReturn

\* variant: the two player locals initialised the other way round
playGameSetup_OStarts(size, count) ==
    /\ pc = "start"
    /\ \E r \in {BoardCtor(size)} :
          /\ board' = r.board
          /\ thrown' = r.threw
          /\ pc' = IF r.threw = "none" THEN "loop" ELSE "terminated"
    /\ currentPlayer' = 2
    /\ nextPlayer' = 1
    /\ maxBoardSize' = size
    /\ playerCount' = count
    /\ prevPlayerMoved' = TRUE
    /\ gameHistory' = << >>
    /\ validMoves' = << >>
    /\ winner' = "none"
    /\ call' = NoCall
    /\ errorMessage' = ""
    /\ selector' = "none"
    /\ UNCHANGED <<root, returned>>

\* variant: gameHistory outlives the call (a static local), it is not
\* created anew
playGameSetup_StaticHistory(size, count) ==
    /\ pc = "start"
    /\ \E r \in {BoardCtor(size)} :
          /\ board' = r.board
          /\ thrown' = r.threw
          /\ pc' = IF r.threw = "none" THEN "loop" ELSE "terminated"
    /\ currentPlayer' = 1
    /\ nextPlayer' = 2
    /\ maxBoardSize' = size
    /\ playerCount' = count
    /\ prevPlayerMoved' = TRUE
    /\ UNCHANGED gameHistory
    /\ validMoves' = << >>
    /\ winner' = "none"
    /\ call' = NoCall
    /\ errorMessage' = ""
    /\ selector' = "none"
    /\ UNCHANGED <<root, returned>>

\* playGame up to the loop: size is what getBoardSize returned, count what
\* getPlayerCount returned
playGameSetup(size, count) ==
    /\ pc = "start"
    /\ \E r \in {BoardCtor(size)} :
          /\ board' = r.board
          /\ thrown' = r.threw
          /\ pc' = IF r.threw = "none" THEN "loop" ELSE "terminated"
    /\ currentPlayer' = 1
    /\ nextPlayer' = 2
    /\ maxBoardSize' = size
    /\ playerCount' = count
    /\ prevPlayerMoved' = TRUE
    /\ gameHistory' = << >>
    /\ validMoves' = << >>
    /\ winner' = "none"
    /\ call' = NoCall
    /\ errorMessage' = ""
    /\ selector' = "none"
    /\ UNCHANGED <<root, returned>>

\* variant: the break is taken without looking at prevPlayerMoved
EndGame_OnAnyPass ==
    /\ pc = "loop"
    /\ \E vm \in {getValidMoves(board, maxBoardSize, currentPlayer)} :
          /\ DOMAIN vm = {}
          /\ validMoves' = vm
    /\ winner' = showWinner(board)
    /\ pc' = "over"
    /\ UNCHANGED <<root, returned, selector, errorMessage, call, maxBoardSize, board, currentPlayer, nextPlayer,
                   prevPlayerMoved, gameHistory, playerCount, thrown>>

\* loop top, no valid move, previous player did not move: break, showWinner
EndGame ==
    /\ pc = "loop"
    /\ \E vm \in {getValidMoves(board, maxBoardSize, currentPlayer)} :
          /\ DOMAIN vm = {}
          /\ ~prevPlayerMoved
          /\ validMoves' = vm
    /\ winner' = showWinner(board)
    /\ pc' = "over"
    /\ UNCHANGED <<root, returned, selector, errorMessage, call, maxBoardSize, board, currentPlayer, nextPlayer,
                   prevPlayerMoved, gameHistory, playerCount, thrown>>

\* variant: the pass does not clear prevPlayerMoved
PassTurn_KeepsFlag ==
    /\ pc = "loop"
    /\ \E vm \in {getValidMoves(board, maxBoardSize, currentPlayer)} :
          /\ DOMAIN vm = {}
          /\ prevPlayerMoved
          /\ validMoves' = vm
    /\ currentPlayer' = nextPlayer
    /\ nextPlayer' = currentPlayer
    /\ UNCHANGED <<root, returned, selector, errorMessage, call, pc, maxBoardSize, board, gameHistory, playerCount,
                   thrown, winner, prevPlayerMoved>>

\* variant: the pass leaves out the swap
PassTurn_NoSwap ==
    /\ pc = "loop"
    /\ \E vm \in {getValidMoves(board, maxBoardSize, currentPlayer)} :
          /\ DOMAIN vm = {}
          /\ prevPlayerMoved
          /\ validMoves' = vm
    /\ prevPlayerMoved' = FALSE
    /\ UNCHANGED <<root, returned, selector, errorMessage, call, pc, maxBoardSize, board, gameHistory, playerCount,
                   thrown, winner, currentPlayer, nextPlayer>>

\* loop top, no valid move, previous player moved: pass
PassTurn ==
    /\ pc = "loop"
    /\ \E vm \in {getValidMoves(board, maxBoardSize, currentPlayer)} :
          /\ DOMAIN vm = {}
          /\ prevPlayerMoved
          /\ validMoves' = vm
    /\ prevPlayerMoved' = FALSE
    /\ currentPlayer' = nextPlayer
    /\ nextPlayer' = currentPlayer
    /\ UNCHANGED <<root, returned, selector, errorMessage, call, pc, maxBoardSize, board, gameHistory, playerCount,
                   thrown, winner>>

\* variant: a map that still has entries is kept from the turn before
BeginTurn_KeepsMap ==
    /\ pc = "loop"
    /\ \E vm \in {IF DOMAIN validMoves # {} THEN validMoves
                  ELSE getValidMoves(board, maxBoardSize, currentPlayer)} :
          /\ DOMAIN vm # {}
          /\ validMoves' = vm
    /\ pc' = "select"
    /\ UNCHANGED <<root, returned, selector, errorMessage, call, maxBoardSize, board, currentPlayer, nextPlayer,
                   prevPlayerMoved, gameHistory, playerCount, thrown, winner>>

\* variant: the map handed to the selector is the one of the other player
BeginTurn_MapOfNext ==
    /\ pc = "loop"
    /\ \E vm \in {getValidMoves(board, maxBoardSize, currentPlayer)} :
          /\ DOMAIN vm # {}
          /\ validMoves' = getValidMoves(board, maxBoardSize, nextPlayer)
    /\ pc' = "select"
    /\ UNCHANGED <<root, returned, selector, errorMessage, call, maxBoardSize, board, currentPlayer, nextPlayer,
                   prevPlayerMoved, gameHistory, playerCount, thrown, winner>>

\* loop top with a valid move: on to the move selector
BeginTurn ==
    /\ pc = "loop"
    /\ \E vm \in {getValidMoves(board, maxBoardSize, currentPlayer)} :
          /\ DOMAIN vm # {}
          /\ validMoves' = vm
    /\ pc' = "select"
    /\ UNCHANGED <<root, returned, selector, errorMessage, call, maxBoardSize, board, currentPlayer, nextPlayer,
                   prevPlayerMoved, gameHistory, playerCount, thrown, winner>>

\* variant: the move is placed but not pushed on gameHistory
applyMove_NoPush(playerMove) ==
    /\ prevPlayerMoved' = TRUE
    /\ IF playerMove \notin DOMAIN validMoves
       THEN /\ thrown' = "out_of_range"
            /\ pc' = "terminated"
            /\ UNCHANGED <<board, gameHistory, currentPlayer, nextPlayer, call>>
       ELSE /\ call' = PlaceCall(playerMove, currentPlayer, validMoves[playerMove])
            /\ \E r \in {placePiece(board, playerMove, currentPlayer,
                                     validMoves[playerMove])} :
                  /\ board' = r.board
                  /\ thrown' = r.threw
                  /\ IF r.threw = "none"
                     THEN /\ currentPlayer' = nextPlayer
                          /\ nextPlayer' = currentPlayer
                          /\ pc' = "loop"
                          /\ UNCHANGED gameHistory
                     ELSE /\ pc' = "terminated"
                          /\ UNCHANGED <<gameHistory, currentPlayer, nextPlayer>>
    /\ UNCHANGED <<maxBoardSize, playerCount, validMoves, winner>>

\* variant: prevPlayerMoved is not set again after a move
applyMove_NoFlagReset(playerMove) ==
    /\ UNCHANGED prevPlayerMoved
    /\ IF playerMove \notin DOMAIN validMoves
       THEN /\ thrown' = "out_of_range"
            /\ pc' = "terminated"
            /\ UNCHANGED <<board, gameHistory, currentPlayer, nextPlayer, call>>
       ELSE /\ call' = PlaceCall(playerMove, currentPlayer, validMoves[playerMove])
            /\ \E r \in {placePiece(board, playerMove, currentPlayer,
                                     validMoves[playerMove])} :
                  /\ board' = r.board
                  /\ thrown' = r.threw
                  /\ IF r.threw = "none"
                     THEN /\ gameHistory' = Append(gameHistory,
                                                   PlayerMove(currentPlayer, playerMove))
                          /\ currentPlayer' = nextPlayer
                          /\ nextPlayer' = currentPlayer
                          /\ pc' = "loop"
                     ELSE /\ pc' = "terminated"
                          /\ UNCHANGED <<gameHistory, currentPlayer, nextPlayer>>
    /\ UNCHANGED <<maxBoardSize, playerCount, validMoves, winner>>

\* variant: the record replaces the top of gameHistory
applyMove_ReplacesTop(playerMove) ==
    /\ prevPlayerMoved' = TRUE
    /\ IF playerMove \notin DOMAIN validMoves
       THEN /\ thrown' = "out_of_range"
            /\ pc' = "terminated"
            /\ UNCHANGED <<board, gameHistory, currentPlayer, nextPlayer, call>>
       ELSE /\ call' = PlaceCall(playerMove, currentPlayer, validMoves[playerMove])
            /\ \E r \in {placePiece(board, playerMove, currentPlayer,
                                     validMoves[playerMove])} :
                  /\ board' = r.board
                  /\ thrown' = r.threw
                  /\ IF r.threw = "none"
                     THEN /\ gameHistory' =
                               IF gameHistory = << >>
                               THEN << PlayerMove(currentPlayer, playerMove) >>
                               ELSE [gameHistory EXCEPT ![Len(gameHistory)] =
                                       PlayerMove(currentPlayer, playerMove)]
                          /\ currentPlayer' = nextPlayer
                          /\ nextPlayer' = currentPlayer
                          /\ pc' = "loop"
                     ELSE /\ pc' = "terminated"
                          /\ UNCHANGED <<gameHistory, currentPlayer, nextPlayer>>
    /\ UNCHANGED <<maxBoardSize, playerCount, validMoves, winner>>

\* the rest of the iteration once the selector returned playerMove;
\* validMoves.at(playerMove) throws for a position that is no key
applyMove(playerMove) ==
    /\ prevPlayerMoved' = TRUE
    /\ IF playerMove \notin DOMAIN validMoves
       THEN /\ thrown' = "out_of_range"
            /\ pc' = "terminated"
            /\ UNCHANGED <<board, gameHistory, currentPlayer, nextPlayer, call>>
       ELSE /\ call' = PlaceCall(playerMove, currentPlayer, validMoves[playerMove])
            /\ \E r \in {placePiece(board, playerMove, currentPlayer,
                                     validMoves[playerMove])} :
                  /\ board' = r.board
                  /\ thrown' = r.threw
                  /\ IF r.threw = "none"
                     THEN /\ gameHistory' = Append(gameHistory,
                                                   PlayerMove(currentPlayer, playerMove))
                          /\ currentPlayer' = nextPlayer
                          /\ nextPlayer' = currentPlayer
                          /\ pc' = "loop"
                     ELSE /\ pc' = "terminated"
                          /\ UNCHANGED <<gameHistory, currentPlayer, nextPlayer>>
    /\ UNCHANGED <<maxBoardSize, playerCount, validMoves, winner>>

\* variant: the agent is asked whenever playerCount is 1
AITurn_AnyPlayer(coin, pick) ==
    /\ pc = "select"
    /\ playerCount = 1
    /\ DrawExplored(coin, pick, Len(gameHistory), maxBoardSize)
    /\ \E playerMove \in {getAIMove(validMoves, coin, pick)} :
          applyMove(playerMove)
    /\ selector' = "getAIMove"
    /\ UNCHANGED <<errorMessage, root, returned>>

\* the selector is getAIMove
AITurn(coin, pick) ==
    /\ pc = "select"
    /\ currentPlayer = 2 /\ playerCount = 1
    /\ DrawExplored(coin, pick, Len(gameHistory), maxBoardSize)
    /\ \E playerMove \in {getAIMove(validMoves, coin, pick)} :
          applyMove(playerMove)
    /\ selector' = "getAIMove"
    /\ UNCHANGED <<errorMessage, root, returned>>

\* the selector is getPlayerMove: one pass of its input loop on typed; a
\* rejected attempt sets errorMessage and asks again, an accepted one is
\* returned to playGame, which applies it
HumanTurn(typed) ==
    /\ pc = "select"
    /\ ~(currentPlayer = 2 /\ playerCount = 1)
    /\ TypedExplored(typed, Len(gameHistory), validMoves, maxBoardSize)
    /\ selector' = "getPlayerMove"
    /\ UNCHANGED <<root, returned>>
    /\ \E r \in {readPlayerMove(typed, maxBoardSize, validMoves)} :
          IF r.accepted
          THEN /\ errorMessage' = ""
               /\ applyMove(r.location)
          ELSE /\ errorMessage' = r.error
               /\ UNCHANGED <<pc, maxBoardSize, board, currentPlayer, nextPlayer,
                              prevPlayerMoved, gameHistory, playerCount,
                              validMoves, thrown, winner, call>>

\* getPlayerMove returns: some attempt is accepted
HumanMoves ==
    \E typed \in (1 .. maxBoardSize) \X (1 .. maxBoardSize) :
        /\ readPlayerMove(typed, maxBoardSize, validMoves).accepted
        /\ HumanTurn(typed)

\* main: getPlayAgain answered Y; playGame is called again, and what the
\* finished call left behind is dead storage until it is set up anew
PlayAgain ==
    /\ pc = "over"
    /\ pc' = "start"
    /\ UNCHANGED <<maxBoardSize, board, currentPlayer, nextPlayer,
                   prevPlayerMoved, gameHistory, playerCount, validMoves,
                   thrown, winner, call, errorMessage, selector, root,
                   returned>>

\* main: getPlayAgain answered N
Quit ==
    /\ pc = "over"
    /\ pc' = "exit"
    /\ maxBoardSize' = 0
    /\ board' = NoBoard
    /\ currentPlayer' = 1
    /\ nextPlayer' = 2
    /\ prevPlayerMoved' = TRUE
    /\ gameHistory' = << >>
    /\ playerCount' = 0
    /\ validMoves' = << >>
    /\ thrown' = "none"
    /\ winner' = "none"
    /\ call' = NoCall
    /\ errorMessage' = ""
    /\ selector' = "none"
    /\ UNCHANGED <<root, returned>>

Next ==
    \/ \E size \in MinBoardSize .. MaxBoardSize, count \in 1 .. 2 :
          playGameSetup(size, count)
    \/ EndGame
    \/ PassTurn
    \/ BeginTurn
    \/ \E coin \in 0 .. 1, pick \in 0 .. Cardinality(DOMAIN validMoves) - 1 :
          AITurn(coin, pick)
    \/ \E typed \in {Malformed} \cup
                      ((0 .. maxBoardSize + 1) \X (0 .. maxBoardSize + 1)) :
          HumanTurn(typed)
    \/ PlayAgain
    \/ Quit

Spec == Init /\ [][Next]_vars

\* ================================================== a client of class Board
\* the Board class driven directly: construction with any size argument,
\* then getValidMoves / placePiece for either player in any order
InitBoard ==
    /\ pc = "new"
    /\ maxBoardSize = 0
    /\ board = NoBoard
    /\ currentPlayer = 1
    /\ nextPlayer = 2
    /\ prevPlayerMoved = TRUE
    /\ gameHistory = << >>
    /\ playerCount = 0
    /\ validMoves = << >>
    /\ thrown = "none"
    /\ winner = "none"
    /\ call = NoCall
    /\ errorMessage = ""
    /\ selector = "none"
    /\ root = Null
    /\ returned = NoReturn

\* Board theBoard(size)
BoardNew(size) ==
    /\ pc = "new"
    /\ maxBoardSize' = size
    /\ \E r \in {BoardCtor(size)} :
          /\ board' = r.board
          /\ thrown' = r.threw
          /\ pc' = IF r.threw = "none" THEN "ready" ELSE "threw"
    /\ UNCHANGED <<root, returned, selector, errorMessage, call, currentPlayer, nextPlayer, prevPlayerMoved, gameHistory,
                   playerCount, validMoves, winner>>

\* placements made on the board so far
Placed(b) == Cardinality({p \in DOMAIN b : b[p] # EMPTY}) - 4

\* calls of the client explored: every legal one in the opening, afterwards
\* the first listed move of the first player that has one
CallExplored(b, n, player, position, vm) ==
    \/ Placed(b) < OpeningPlies(n)
    \/ /\ position = firstKey(vm)
       /\ player = 2 => DOMAIN getValidMoves(b, n, 1) = {}

\* validMoves = theBoard.getValidMoves(player);
\* theBoard.placePiece(position, player, validMoves.at(position))
\* for a key position of validMoves
ApiPlacePiece(player) ==
    /\ pc = "ready"
    /\ \E vm \in {getValidMoves(board, maxBoardSize, player)} :
         \E position \in DOMAIN vm :
          /\ CallExplored(board, maxBoardSize, player, position, vm)
          /\ call' = PlaceCall(position, player, vm[position])
          /\ \E r \in {placePiece(board, position, player, vm[position])} :
                /\ board' = r.board
                /\ thrown' = r.threw
                /\ pc' = IF r.threw = "none" THEN "ready" ELSE "threw"
    /\ UNCHANGED <<root, returned, selector, errorMessage, maxBoardSize, currentPlayer, nextPlayer, prevPlayerMoved,
                   gameHistory, playerCount, validMoves, winner>>

\* capture arguments a client hands over without consulting getValidMoves:
\* the cells of a straight line from position (position itself with or
\* without), as far as they lie on the board
LineSets(position, n) ==
    { { q \in Positions(n) :
          \E j \in lo .. hi : q = <<position[1] + j * d[1], position[2] + j * d[2]>> }
      : d \in {directions[i] : i \in 1 .. Len(directions)},
        lo \in 0 .. 1, hi \in 0 .. n - 1 }

\* boards on which such calls are explored: the early part of the opening
AnyCallExplored(b, n) == Placed(b) + 1 < OpeningPlies(n)

\* theBoard.placePiece(position, player, toFlip) with arguments of the
\* client's own making; the client stops after the call
ApiPlaceAny ==
    /\ pc = "ready"
    /\ AnyCallExplored(board, maxBoardSize)
    /\ \E position \in Positions(maxBoardSize), player \in 1 .. 2 :
         \E toFlip \in LineSets(position, maxBoardSize) :
          /\ call' = PlaceCall(position, player, toFlip)
          /\ \E r \in {placePiece(board, position, player, toFlip)} :
                /\ board' = r.board
                /\ thrown' = r.threw
    /\ pc' = "called"
    /\ UNCHANGED <<root, returned, selector, errorMessage, maxBoardSize, currentPlayer, nextPlayer, prevPlayerMoved,
                   gameHistory, playerCount, validMoves, winner>>

NextBoard ==
    \/ \E size \in MinSizeTried .. MaxBoardSize : BoardNew(size)
    \/ \E player \in 1 .. 2 : ApiPlacePiece(player)
    \/ ApiPlaceAny

SpecBoard == InitBoard /\ [][NextBoard]_vars

\* the game loop never starves: one thread runs it, the agent's selector
\* returns, and the human's selector returns in the end
LiveSpec == Init /\ [][Next]_vars /\ WF_vars(Next) /\ WF_vars(HumanMoves)

\* ========================================================== class AVLTree
\* struct AVLNode: a node is <<data, left, right, height>>; new AVLNode(value)
AVLNode(value) == <<value, Null, Null, 0>>

data(node) == node[1]
left(node) == node[2]
right(node) == node[3]

Max(a, b) == IF a >= b THEN a ELSE b

get_height(node) == IF node = Null THEN -1 ELSE node[4]

get_diff(node) == get_height(left(node)) - get_height(right(node))

\* node->height = 1 + std::max(get_height(node->left), get_height(node->right))
updateHeight(node) ==
    [node EXCEPT ![4] = 1 + Max(get_height(left(node)), get_height(right(node)))]

ll_rotation(parent) ==
    LET temp == left(parent)
        lowered == updateHeight([parent EXCEPT ![2] = right(temp)])
    IN  updateHeight([temp EXCEPT ![3] = lowered])

rr_rotation(parent) ==
    LET temp == right(parent)
        lowered == updateHeight([parent EXCEPT ![3] = left(temp)])
    IN  updateHeight([temp EXCEPT ![2] = lowered])

lr_rotation(parent) ==
    ll_rotation([parent EXCEPT ![2] = rr_rotation(left(parent))])

rl_rotation(parent) ==
    rr_rotation([parent EXCEPT ![3] = ll_rotation(right(parent))])

\* variant: only the single rotations are used
balance_SingleOnly(node) ==
    IF get_diff(node) > 1 THEN ll_rotation(node)
    ELSE IF get_diff(node) < -1 THEN rr_rotation(node)
    ELSE node

balance(node) ==
    IF get_diff(node) > 1
    THEN IF get_diff(left(node)) >= 0
         THEN ll_rotation(node)
         ELSE lr_rotation(node)
    ELSE IF get_diff(node) < -1
    THEN IF get_diff(right(node)) <= 0
         THEN rr_rotation(node)
         ELSE rl_rotation(node)
    ELSE node

\* insert(AVLNode*, T): what it returns. The member root it assigns on
\* reaching nullptr is assigned again by insert(T) from this return value.
RECURSIVE insert(_, _)
insert(parent, value) ==
    IF parent = Null
    THEN AVLNode(value)
    ELSE IF value < data(parent)
    THEN balance(updateHeight([parent EXCEPT ![2] = insert(left(parent), value)]))
    ELSE balance(updateHeight([parent EXCEPT ![3] = insert(right(parent), value)]))

\* find(AVLNode*, T)
RECURSIVE find(_, _)
find(node, value) ==
    IF node = Null \/ data(node) = value
    THEN node
    ELSE IF value < data(node)
    THEN find(left(node), value)
    ELSE find(right(node), value)

\* the data of the leftmost node under node (the successor loop of remove)
RECURSIVE leftmost(_)
leftmost(node) ==
    IF left(node) = Null THEN data(node) ELSE leftmost(left(node))

\* variant: the successor's data is copied but the successor is left in
\* the right subtree
RECURSIVE remove_KeepsSuccessor(_, _)
remove_KeepsSuccessor(node, value) ==
    IF node = Null
    THEN [removed |-> FALSE, node |-> Null]
    ELSE IF value < data(node)
    THEN LET r == remove_KeepsSuccessor(left(node), value)
         IN  IF r.removed
             THEN [removed |-> TRUE,
                   node |-> balance(updateHeight([node EXCEPT ![2] = r.node]))]
             ELSE [removed |-> FALSE, node |-> node]
    ELSE IF value > data(node)
    THEN LET r == remove_KeepsSuccessor(right(node), value)
         IN  IF r.removed
             THEN [removed |-> TRUE,
                   node |-> balance(updateHeight([node EXCEPT ![3] = r.node]))]
             ELSE [removed |-> FALSE, node |-> node]
    ELSE IF left(node) = Null /\ right(node) = Null
    THEN [removed |-> TRUE, node |-> Null]
    ELSE IF left(node) = Null
    THEN [removed |-> TRUE, node |-> right(node)]
    ELSE IF right(node) = Null
    THEN [removed |-> TRUE, node |-> left(node)]
    ELSE [removed |-> TRUE,
          node |-> balance(updateHeight(
                      [node EXCEPT ![1] = leftmost(right(node))]))]

\* remove(AVLNode*&, T): removed is the return value, node what the
\* reference parameter holds afterwards
RECURSIVE remove(_, _)
remove(node, value) ==
    IF node = Null
    THEN [removed |-> FALSE, node |-> Null]
    ELSE IF value < data(node)
    THEN LET r == remove(left(node), value)
         IN  IF r.removed
             THEN [removed |-> TRUE,
                   node |-> balance(updateHeight([node EXCEPT ![2] = r.node]))]
             ELSE [removed |-> FALSE, node |-> node]
    ELSE IF value > data(node)
    THEN LET r == remove(right(node), value)
         IN  IF r.removed
             THEN [removed |-> TRUE,
                   node |-> balance(updateHeight([node EXCEPT ![3] = r.node]))]
             ELSE [removed |-> FALSE, node |-> node]
    ELSE IF left(node) = Null /\ right(node) = Null
    THEN [removed |-> TRUE, node |-> Null]
    ELSE IF left(node) = Null
    THEN [removed |-> TRUE, node |-> right(node)]
    ELSE IF right(node) = Null
    THEN [removed |-> TRUE, node |-> left(node)]
    ELSE LET successor == leftmost(right(node))
             r == remove(right(node), successor)
         IN  [removed |-> TRUE,
              node |-> balance(updateHeight(
                          [node EXCEPT ![1] = successor, ![3] = r.node]))]

\* the number of nodes under node
RECURSIVE nodeCount(_)
nodeCount(node) ==
    IF node = Null THEN 0
    ELSE 1 + nodeCount(left(node)) + nodeCount(right(node))

\* a client of class AVLTree<int>: construction, then insert(T), remove(T)
\* and find(T) in any order
InitTree ==
    /\ pc = "tree"
    /\ maxBoardSize = 0
    /\ board = NoBoard
    /\ currentPlayer = 1
    /\ nextPlayer = 2
    /\ prevPlayerMoved = TRUE
    /\ gameHistory = << >>
    /\ playerCount = 0
    /\ validMoves = << >>
    /\ thrown = "none"
    /\ winner = "none"
    /\ call = NoCall
    /\ errorMessage = ""
    /\ selector = "none"
    /\ root = Null
    /\ returned = NoReturn

\* insert(T)
TreeInsert(value) ==
    /\ pc = "tree"
    /\ nodeCount(root) < MaxNodes
    /\ root' = insert(root, value)
    /\ returned' = [op |-> "insert", value |-> value, result |-> root']
    /\ UNCHANGED <<pc, maxBoardSize, board, currentPlayer, nextPlayer,
                   prevPlayerMoved, gameHistory, playerCount, validMoves,
                   thrown, winner, call, errorMessage, selector>>

\* remove(T)
TreeRemove(value) ==
    /\ pc = "tree"
    /\ \E r \in {remove(root, value)} :
          /\ root' = r.node
          /\ returned' = [op |-> "remove", value |-> value,
                          result |-> r.removed]
    /\ UNCHANGED <<pc, maxBoardSize, board, currentPlayer, nextPlayer,
                   prevPlayerMoved, gameHistory, playerCount, validMoves,
                   thrown, winner, call, errorMessage, selector>>

\* find(T): the member root is assigned what find(AVLNode*, T) returned
TreeFind(value) ==
    /\ pc = "tree"
    /\ root' = find(root, value)
    /\ returned' = [op |-> "find", value |-> value, result |-> root']
    /\ UNCHANGED <<pc, maxBoardSize, board, currentPlayer, nextPlayer,
                   prevPlayerMoved, gameHistory, playerCount, validMoves,
                   thrown, winner, call, errorMessage, selector>>

NextTree ==
    \/ \E value \in 1 .. MaxValue : TreeInsert(value)
    \/ \E value \in 1 .. MaxValue : TreeRemove(value)
    \/ \E value \in 1 .. MaxValue : TreeFind(value)

SpecTree == InitTree /\ [][NextTree]_vars


\* ================================================================== claims
\* the eight compass directions, as a set
Compass == { d \in (-1 .. 1) \X (-1 .. 1) : d # <<0, 0>> }

\* the cell j steps from origin in direction d
Along(origin, d, j) == <<origin[1] + j * d[1], origin[2] + j * d[2]>>

OnBoard(p, n) == p[1] >= 0 /\ p[1] < n /\ p[2] >= 0 /\ p[2] < n

Opponent(player) == IF player = PLAYER_X THEN PLAYER_O ELSE PLAYER_X

\* from origin in direction d: k opponent cells, then a cell of player
RunThenAnchor(b, n, origin, player, d, k) ==
    /\ \A j \in 1 .. k : /\ OnBoard(Along(origin, d, j), n)
                         /\ b[Along(origin, d, j)] = Opponent(player)
    /\ OnBoard(Along(origin, d, k + 1), n)
    /\ b[Along(origin, d, k + 1)] = player

\* C1: for every size N >= 4, even or odd, the board right after
\* construction has exactly the four centre cells occupied: with c = N div 2,
\* (c-1,c-1) and (c,c) hold X, (c-1,c) and (c,c-1) hold O, and every other
\* cell of [0,N) x [0,N) is Empty.
C1_InitialBoard ==
    [][ (pc = "new" /\ maxBoardSize' >= 4) =>
          LET n == maxBoardSize'
              c == n \div 2
          IN /\ pc' = "ready"
             /\ DOMAIN board' = Positions(n)
             /\ \A p \in Positions(n) :
                  board'[p] = IF p \in {<<c - 1, c - 1>>, <<c, c>>} THEN PLAYER_X
                              ELSE IF p \in {<<c - 1, c>>, <<c, c - 1>>} THEN PLAYER_O
                              ELSE EMPTY
             /\ Cardinality({p \in Positions(n) : board'[p] # EMPTY}) = 4 ]_vars

\* a board of odd size, just constructed
C1_Witness ==
    pc = "ready" /\ maxBoardSize = 5 /\ Placed(board) = 0

\* C2: on any board, for an empty origin, a player and a direction: when
\* the origin is followed by a run of k >= 1 opponent cells and then a cell
\* of the player, findFlippablePieces returns true and toFlip is exactly
\* those k cells.
C2_RunCaptured ==
    pc = "ready" =>
      \A origin \in Positions(maxBoardSize), player \in 1 .. 2, d \in Compass,
         k \in 1 .. maxBoardSize :
        (board[origin] = EMPTY /\
         RunThenAnchor(board, maxBoardSize, origin, player, d, k)) =>
           LET r == findFlippablePieces(board, maxBoardSize, origin, player, d)
           IN /\ r.piecesToFlip
              /\ r.toFlip = {Along(origin, d, j) : j \in 1 .. k}
              /\ origin \notin r.toFlip
              /\ Along(origin, d, k + 1) \notin r.toFlip

\* an empty origin, a run of two opponent cells and the anchor behind it,
\* scanned with success
C2_Witness ==
    /\ pc = "ready"
    /\ \E origin \in Positions(maxBoardSize), player \in 1 .. 2, d \in Compass :
         /\ board[origin] = EMPTY
         /\ RunThenAnchor(board, maxBoardSize, origin, player, d, 2)
         /\ findFlippablePieces(board, maxBoardSize, origin, player, d).piecesToFlip

\* C3: on any board, for any origin, player and direction: when the cell
\* next to the origin in that direction is Empty or off the board,
\* findFlippablePieces returns false with an empty toFlip.
C3_NoRunNoCapture ==
    pc = "ready" =>
      \A origin \in Positions(maxBoardSize), player \in 1 .. 2, d \in Compass :
        LET next == Along(origin, d, 1)
        IN (~OnBoard(next, maxBoardSize) \/ board[next] = EMPTY) =>
             findFlippablePieces(board, maxBoardSize, origin, player, d)
               = [piecesToFlip |-> FALSE, toFlip |-> {}]

\* an empty cell next to the origin with a run and an anchor behind it, and
\* an origin on the edge of the board
C3_Witness ==
    /\ pc = "ready"
    /\ \E origin \in Positions(maxBoardSize), player \in 1 .. 2, d \in Compass :
         /\ OnBoard(Along(origin, d, 1), maxBoardSize)
         /\ board[Along(origin, d, 1)] = EMPTY
         /\ RunThenAnchor(board, maxBoardSize, Along(origin, d, 1), player, d, 1)
         /\ ~findFlippablePieces(board, maxBoardSize, origin, player, d).piecesToFlip
    /\ \E origin \in Positions(maxBoardSize), d \in Compass :
         /\ ~OnBoard(Along(origin, d, 1), maxBoardSize)
         /\ board[origin] = EMPTY

\* the union of the eight directional scans of a position
ScanUnion(b, n, position, player) ==
    UNION { findFlippablePieces(b, n, position, player, d).toFlip : d \in Compass }

\* C4: on any board, for any player: a position is a key of
\* getValidMoves(player) iff it is Empty and the union of its eight
\* directional scans is non-empty, and the value stored for a key is that
\* union.
C4_LegalMoveMap ==
    pc = "ready" =>
      \A player \in 1 .. 2 :
        LET vm == getValidMoves(board, maxBoardSize, player)
        IN /\ DOMAIN vm = { p \in Positions(maxBoardSize) :
                              /\ board[p] = EMPTY
                              /\ ScanUnion(board, maxBoardSize, p, player) # {} }
           /\ \A p \in DOMAIN vm :
                vm[p] = ScanUnion(board, maxBoardSize, p, player)

\* a key whose capture set comes from two directions, and an occupied cell
\* whose scans are non-empty but which is no key
C4_Witness ==
    /\ pc = "ready"
    /\ \E player \in 1 .. 2 :
         LET vm == getValidMoves(board, maxBoardSize, player)
         IN /\ \E p \in DOMAIN vm : \E d1, d2 \in Compass :
                 /\ d1 # d2
                 /\ findFlippablePieces(board, maxBoardSize, p, player, d1).piecesToFlip
                 /\ findFlippablePieces(board, maxBoardSize, p, player, d2).piecesToFlip
            /\ \E q \in Positions(maxBoardSize) :
                 /\ board[q] # EMPTY
                 /\ ScanUnion(board, maxBoardSize, q, player) # {}
                 /\ q \notin DOMAIN vm

\* the step of playGame that applies the selected move
MoveStep == pc = "select" /\ pc' = "loop"

\* the 4 x 4 board after construction
Fresh4 ==
    [p \in Positions(4) |->
        IF p \in {<<1, 1>>, <<2, 2>>} THEN PLAYER_X
        ELSE IF p \in {<<1, 2>>, <<2, 1>>} THEN PLAYER_O
        ELSE EMPTY]

\* C5: after placePiece(pos, player, captures) for a legal move (pos a key
\* of getValidMoves(player), captures its value on the same board): pos holds
\* player, every cell of captures holds its former owner flipped, every other
\* cell is unchanged; and on the fresh 4 x 4 board X placing at (0,2) gives
\* (0,2) = X and (1,2) = X with no other change.
C5_PlaceEffect ==
    [][ MoveStep =>
          LET pos == gameHistory'[Len(gameHistory')].theLocation
              player == currentPlayer
              vm == getValidMoves(board, maxBoardSize, player)
          IN (pos \in DOMAIN vm /\ pos \in DOMAIN validMoves
                /\ validMoves[pos] = vm[pos]) =>
               /\ DOMAIN board' = DOMAIN board
               /\ board'[pos] = player
               /\ \A q \in vm[pos] :
                    board[q] # EMPTY /\ board'[q] = Opponent(board[q])
               /\ \A p \in DOMAIN board \ ({pos} \cup vm[pos]) :
                    board'[p] = board[p]
               /\ (board = Fresh4 /\ player = PLAYER_X /\ pos = <<0, 2>>) =>
                    board' = [Fresh4 EXCEPT ![<<0, 2>>] = PLAYER_X,
                                            ![<<1, 2>>] = PLAYER_X] ]_vars

\* X has placed at (0,2) on the fresh 4 x 4 board
C5_Witness ==
    /\ pc = "loop"
    /\ maxBoardSize = 4
    /\ gameHistory = << PlayerMove(PLAYER_X, <<0, 2>>) >>
    /\ board[<<1, 2>>] = PLAYER_X

\* player has no legal move on the current board
NoMoves(player) == DOMAIN getValidMoves(board, maxBoardSize, player) = {}

\* C6: the loop of playGame reaches its terminal state iff two consecutive
\* turns each found an empty legal-move map: the current player has no legal
\* move and the turn just before was a pass by the other player. A single
\* pass, or two passes with an applied move between them, does not end the
\* game.
C6_EndsOnDoublePass ==
    /\ [][ /\ (pc # "over" /\ pc' = "over") =>
                (pc = "loop" /\ NoMoves(currentPlayer) /\ ~prevPlayerMoved)
           /\ (pc = "loop" /\ NoMoves(currentPlayer) /\ ~prevPlayerMoved) =>
                pc' = "over"
           /\ (pc = "loop" /\ NoMoves(currentPlayer) /\ prevPlayerMoved) =>
                /\ pc' = "loop"
                /\ ~prevPlayerMoved'
                /\ currentPlayer' = nextPlayer
                /\ nextPlayer' = currentPlayer
                /\ board' = board
           /\ (pc = "loop" /\ ~NoMoves(currentPlayer)) =>
                (pc' = "select" /\ prevPlayerMoved' = prevPlayerMoved)
           /\ MoveStep => prevPlayerMoved'
           /\ pc = "start" => prevPlayerMoved' ]_vars
    /\ [](pc = "loop" /\ ~prevPlayerMoved => NoMoves(nextPlayer))

\* a finished game in which one player made two moves in a row: a pass that
\* did not end the game
C6_Witness ==
    /\ pc = "over"
    /\ \E i \in 1 .. Len(gameHistory) - 1 :
         gameHistory[i].thePlayer = gameHistory[i + 1].thePlayer

\* C7: with every move selector call returning a legal move, every game
\* reaches the terminal state, and the number of applied moves of a game
\* never exceeds boardSize^2.
C7_Terminates ==
    /\ (pc = "loop") ~> (pc = "over")
    /\ [](Len(gameHistory) <= maxBoardSize * maxBoardSize)

\* a finished game that filled the 4 x 4 board
C7_Witness ==
    /\ pc = "over"
    /\ maxBoardSize = 4
    /\ Len(gameHistory) = 12

\* C8: in every state of a game the X cells, the O cells and the Empty
\* cells together number boardSize^2.
C8_Conservation ==
    pc \in {"loop", "select", "over"} =>
      countOf(board, PLAYER_X) + countOf(board, PLAYER_O) + countOf(board, EMPTY)
        = maxBoardSize * maxBoardSize

\* a game after a pass, with moves applied and cells of all three kinds
C8_Witness ==
    /\ pc = "loop"
    /\ ~prevPlayerMoved
    /\ Len(gameHistory) >= 4
    /\ countOf(board, PLAYER_X) > 0
    /\ countOf(board, PLAYER_O) > 0
    /\ countOf(board, EMPTY) > 0

\* C9: on the fresh 4 x 4 board getValidMoves(X) is the four-entry map
\* (0,2) -> {(1,2)}, (1,3) -> {(1,2)}, (2,0) -> {(2,1)}, (3,1) -> {(2,1)}.
C9_OpeningMoves ==
    (pc = "select" /\ maxBoardSize = 4 /\ gameHistory = << >>) =>
      /\ currentPlayer = PLAYER_X
      /\ board = Fresh4
      /\ DOMAIN validMoves = {<<0, 2>>, <<1, 3>>, <<2, 0>>, <<3, 1>>}
      /\ validMoves[<<0, 2>>] = {<<1, 2>>}
      /\ validMoves[<<1, 3>>] = {<<1, 2>>}
      /\ validMoves[<<2, 0>>] = {<<2, 1>>}
      /\ validMoves[<<3, 1>>] = {<<2, 1>>}

\* the first turn of a 4 x 4 game, the map computed
C9_Witness ==
    pc = "select" /\ maxBoardSize = 4 /\ gameHistory = << >> /\ board = Fresh4

\* C10: constructing a Board with size < 4 fails with invalid_argument and
\* leaves no usable board; constructing one with size >= 4 never fails so.
C10_SizeCheck ==
    pc # "new" =>
      /\ (maxBoardSize < 4) <=> (thrown = "invalid_argument")
      /\ thrown = "invalid_argument" => (pc = "threw" /\ board = NoBoard)
      /\ maxBoardSize >= 4 => DOMAIN board = Positions(maxBoardSize)

\* the constructor was given 3 and threw
C10_Witness ==
    pc = "threw" /\ maxBoardSize = 3 /\ thrown = "invalid_argument"

\* a step that is a placePiece call of the Board client, its arguments in
\* call'
PlaceStep == pc = "ready" /\ pc' # "ready" /\ call' # NoCall

\* C11: placePiece(pos, player, captures) on a position that is not Empty
\* fails with the occupied-cell error, and the whole board, the target cell
\* and every capture target included, is left as it was before the call.
C11_OccupiedRejected ==
    [][ (PlaceStep /\ board[call'.position] # EMPTY) =>
          /\ thrown' = "occupied"
          /\ board' = board ]_vars

\* an occupied target with a non-empty capture argument that holds an
\* opponent cell: rejected
C11_Witness ==
    /\ pc = "called"
    /\ thrown = "occupied"
    /\ board[call.position] # EMPTY
    /\ \E q \in call.toFlip : board[q] = Opponent(call.player)

\* C12: placePiece(pos, player, captures) with pos Empty fails with the
\* empty-cell-flip error whenever a position of captures is Empty at flip
\* time; and no flip turns an Empty cell into an owned one: apart from pos,
\* a cell Empty before the call is Empty after it.
C12_EmptyFlipRejected ==
    [][ (PlaceStep /\ board[call'.position] = EMPTY) =>
          /\ (\E q \in call'.toFlip \ {call'.position} : board[q] = EMPTY)
                => thrown' = "empty_flip"
          /\ \A q \in DOMAIN board \ {call'.position} :
                board[q] = EMPTY => board'[q] = EMPTY ]_vars

\* an Empty target, captures with an opponent cell followed by an Empty one:
\* the call failed after the first flip
C12_Witness ==
    /\ pc = "called"
    /\ thrown = "empty_flip"
    /\ board[call.position] = call.player
    /\ \E q \in call.toFlip : board[q] = EMPTY
    /\ \E q \in call.toFlip : board[q] = call.player /\ q # call.position

\* C13: in every state of playGame, each capture set of the map returned by
\* getValidMoves(player) holds only cells on the board that the opponent of
\* player owns now, never the candidate position itself, and the placePiece
\* call of the game loop never raises the empty-cell-flip error.
C13_CapturesAreOpponent ==
    /\ pc \in {"loop", "select"} =>
         \A player \in 1 .. 2 :
           LET vm == getValidMoves(board, maxBoardSize, player)
           IN \A k \in DOMAIN vm :
                /\ k \notin vm[k]
                /\ \A q \in vm[k] : /\ OnBoard(q, maxBoardSize)
                                     /\ board[q] = Opponent(player)
    /\ pc = "select" =>
         validMoves = getValidMoves(board, maxBoardSize, currentPlayer)
    /\ thrown \notin {"empty_flip", "out_of_range"}

\* the game loop has applied a move that flipped three cells, without an
\* error
C13_Witness ==
    /\ pc = "loop"
    /\ call # NoCall
    /\ Cardinality(call.toFlip) >= 3
    /\ \A q \in call.toFlip : board[q] = call.player
    /\ thrown = "none"

\* C14: in every state of playGame the position passed to placePiece is
\* Empty at the time of the call, whichever selector chose it, so the
\* occupied-cell error is never raised during a game.
C14_TargetIsEmpty ==
    [][ (pc = "select" /\ pc' # "select") =>
          /\ call' # NoCall
          /\ call'.position \in DOMAIN validMoves
          /\ board[call'.position] = EMPTY
          /\ thrown' # "occupied" ]_vars

\* a one-player game in which the human and the agent have each placed
\* twice
C14_Witness ==
    /\ pc = "loop"
    /\ playerCount = 1
    /\ Len(gameHistory) >= 4
    /\ \E i \in 1 .. Len(gameHistory) : gameHistory[i].thePlayer = PLAYER_O
    /\ thrown = "none"

\* C15: a pass turn (the current player's map is empty and the turn before
\* was no pass) switches the active player, sets the pass flag, and leaves
\* the board and the move history unchanged.
C15_PassFrame ==
    [][ (pc = "loop" /\ NoMoves(currentPlayer) /\ prevPlayerMoved) =>
          /\ currentPlayer' = Opponent(currentPlayer)
          /\ nextPlayer' = currentPlayer
          /\ prevPlayerMoved' = FALSE
          /\ board' = board
          /\ gameHistory' = gameHistory
          /\ maxBoardSize' = maxBoardSize
          /\ pc' = "loop" ]_vars

\* right after a pass: the player who made the latest move is to move again
C15_Witness ==
    /\ pc = "loop"
    /\ ~prevPlayerMoved
    /\ Len(gameHistory) > 0
    /\ gameHistory[Len(gameHistory)].thePlayer = currentPlayer
    /\ validMoves = << >>

\* C16: a move turn (the map is not empty) applies
\* placePiece(chosen, currentPlayer, validMoves[chosen]) for the current
\* player, appends exactly one record (currentPlayer, chosen) to the
\* history, sets prevPlayerMoved, and switches the active player.
C16_MoveTurn ==
    [][ (pc = "select" /\ pc' # "select") =>
          /\ call' # NoCall
          /\ LET chosen == call'.position
             IN /\ chosen \in DOMAIN validMoves
                /\ call' = PlaceCall(chosen, currentPlayer, validMoves[chosen])
                /\ board' = placePiece(board, chosen, currentPlayer,
                                       validMoves[chosen]).board
                /\ board'[chosen] = currentPlayer
                /\ gameHistory' = Append(gameHistory,
                                         PlayerMove(currentPlayer, chosen))
          /\ prevPlayerMoved'
          /\ currentPlayer' = Opponent(currentPlayer)
          /\ nextPlayer' = currentPlayer
          /\ pc' = "loop" ]_vars

\* a move applied right after a pass: the latest two records are by the
\* same player and the pass flag is reset
C16_Witness ==
    /\ pc = "loop"
    /\ prevPlayerMoved
    /\ Len(gameHistory) >= 2
    /\ gameHistory[Len(gameHistory)].thePlayer
         = gameHistory[Len(gameHistory) - 1].thePlayer
    /\ call = PlaceCall(gameHistory[Len(gameHistory)].theLocation,
                        gameHistory[Len(gameHistory)].thePlayer,
                        call.toFlip)
    /\ currentPlayer # gameHistory[Len(gameHistory)].thePlayer

\* the n x n board after construction
FreshBoard(n) ==
    LET c == n \div 2
    IN [p \in Positions(n) |->
          IF p \in {<<c - 1, c - 1>>, <<c, c>>} THEN PLAYER_X
          ELSE IF p \in {<<c - 1, c>>, <<c, c - 1>>} THEN PLAYER_O
          ELSE EMPTY]

\* C17: every game starts with X active and no pass pending: the first turn
\* is evaluated for player X on the freshly built board, and the first
\* applied move of a game is made by X unless X has no legal move.
C17_XMovesFirst ==
    /\ (pc \in {"loop", "select"} /\ gameHistory = << >>) =>
          board = FreshBoard(maxBoardSize)
    /\ (pc \in {"loop", "select"} /\ gameHistory = << >> /\ prevPlayerMoved) =>
          (currentPlayer = PLAYER_X /\ nextPlayer = PLAYER_O)
    /\ (pc = "select" /\ gameHistory = << >>) => prevPlayerMoved
    /\ (pc \in {"loop", "select", "over"} /\ Len(gameHistory) >= 1) =>
          \/ gameHistory[1].thePlayer = PLAYER_X
          \/ DOMAIN getValidMoves(FreshBoard(maxBoardSize), maxBoardSize,
                                  PLAYER_X) = {}

\* the first move of a game on the 5 x 5 board, made by X
C17_Witness ==
    /\ pc = "loop"
    /\ maxBoardSize = 5
    /\ Len(gameHistory) = 1
    /\ gameHistory[1].thePlayer = PLAYER_X
    /\ currentPlayer = PLAYER_O

\* cells of the board that hold v
Owned(v) == {p \in Positions(maxBoardSize) : board[p] = v}

\* C18: at the terminal state the reported result is computed from the
\* final board: X wins iff X owns more cells than O, O wins iff O owns more
\* cells than X, and a draw is reported iff the two counts are equal.
C18_WinnerByCount ==
    pc = "over" =>
      LET x == Cardinality(Owned(PLAYER_X))
          o == Cardinality(Owned(PLAYER_O))
      IN /\ winner \in {"X", "O", "draw"}
         /\ winner = "X" <=> x > o
         /\ winner = "O" <=> o > x
         /\ winner = "draw" <=> x = o

\* a game that ended with as many X cells as O cells
C18_Witness ==
    /\ pc = "over"
    /\ winner = "draw"
    /\ Cardinality(Owned(PLAYER_X)) = Cardinality(Owned(PLAYER_O))

\* C19: when the game ends, neither X nor O has a legal move on the final
\* board; the game never ends on a board where a player still has one.
C19_NoMovesAtEnd ==
    /\ pc = "over" => (NoMoves(PLAYER_X) /\ NoMoves(PLAYER_O))
    /\ (pc = "loop" /\ ~prevPlayerMoved) => NoMoves(nextPlayer)

\* a game that ended after an earlier pass that did not end it, with
\* empty cells left on the final board
C19_Witness ==
    /\ pc = "over"
    /\ Owned(EMPTY) # {}
    /\ \E i \in 1 .. Len(gameHistory) - 1 :
         gameHistory[i].thePlayer = gameHistory[i + 1].thePlayer
    /\ NoMoves(PLAYER_X) /\ NoMoves(PLAYER_O)

\* C20: for every non-empty legal-move map the position returned by
\* getAIMove is a key of that map, on the random branch and on the max-flip
\* branch.
C20_AIMoveIsKey ==
    /\ pc = "select" =>
         \A coin \in 0 .. 1, pick \in 0 .. 2 * Cardinality(DOMAIN validMoves) :
           getAIMove(validMoves, coin, pick) \in DOMAIN validMoves
    /\ (pc = "loop" /\ prevPlayerMoved /\ call # NoCall) =>
         call.position \in DOMAIN validMoves
    /\ thrown # "out_of_range"

\* the agent has moved, and not to the top of its queue: the random branch
\* was taken
C20_Witness ==
    /\ pc = "loop"
    /\ playerCount = 1
    /\ prevPlayerMoved
    /\ call # NoCall
    /\ call.player = PLAYER_O
    /\ call.position \in DOMAIN validMoves
    /\ call.position # queueTop(sortedMoves(validMoves))[2]

\* C21: on the max-flip branch the agent returns a key whose capture set is
\* of maximum cardinality among all keys, and among several such keys the
\* first in row-major order (smallest row, then smallest column).
C21_FirstOfBest ==
    (pc = "select" /\ currentPlayer = PLAYER_O /\ playerCount = 1) =>
      \A pick \in 0 .. Cardinality(DOMAIN validMoves) :
        LET m == getAIMove(validMoves, 1, pick)
        IN /\ m \in DOMAIN validMoves
           /\ \A k \in DOMAIN validMoves :
                /\ Cardinality(validMoves[k]) <= Cardinality(validMoves[m])
                /\ Cardinality(validMoves[k]) = Cardinality(validMoves[m])
                     => (k = m \/ PairLess(m, k))

\* input the human provider may receive at a prompt
Attempts(n) == {Malformed} \cup ((0 .. n + 1) \X (0 .. n + 1))

\* C22: getPlayerMove returns only a position that is in bounds and a key of
\* the current map; an attempt that is malformed, out of bounds or absent
\* from the map is rejected and asked for again, and no rejected attempt
\* changes the board, the history or the active player.
C22_HumanMoveChecked ==
    /\ [][ (pc = "select" /\ ~(currentPlayer = 2 /\ playerCount = 1)) =>
             IF pc' = "select"
             THEN /\ errorMessage' # ""
                  /\ board' = board
                  /\ gameHistory' = gameHistory
                  /\ currentPlayer' = currentPlayer
                  /\ nextPlayer' = nextPlayer
                  /\ call' = call
             ELSE /\ call' # NoCall
                  /\ OnBoard(call'.position, maxBoardSize)
                  /\ call'.position \in DOMAIN validMoves
                  /\ thrown' = "none" ]_vars
    /\ [](pc = "select" =>
            \A typed \in Attempts(maxBoardSize) :
              LET r == readPlayerMove(typed, maxBoardSize, validMoves)
              IN r.accepted <=>
                   /\ typed # Malformed
                   /\ typed[1] \in 1 .. maxBoardSize
                   /\ typed[2] \in 1 .. maxBoardSize
                   /\ <<typed[1] - 1, typed[2] - 1>> \in DOMAIN validMoves)

\* a prompt repeated after an in-bounds attempt that is no key of the map,
\* in the course of a game
C22_Witness ==
    /\ pc = "select"
    /\ errorMessage = "invalid_move"
    /\ Len(gameHistory) >= 1
    /\ board[gameHistory[1].theLocation] = PLAYER_X

\* C23: for every board and player, no capture set of the map returned by
\* getValidMoves contains its own key, and no per-direction scan result
\* contains the origin of the scan.
C23_OriginNotCaptured ==
    pc = "ready" =>
      \A player \in 1 .. 2 :
        /\ \A origin \in Positions(maxBoardSize), d \in Compass :
              origin \notin
                findFlippablePieces(board, maxBoardSize, origin, player, d).toFlip
        /\ LET vm == getValidMoves(board, maxBoardSize, player)
           IN \A k \in DOMAIN vm : k \notin vm[k]

\* a scan that succeeds from an origin which itself holds an opponent piece,
\* and a key with captures in two directions
C23_Witness ==
    /\ pc = "ready"
    /\ \E origin \in Positions(maxBoardSize), player \in 1 .. 2, d \in Compass :
         /\ board[origin] = Opponent(player)
         /\ findFlippablePieces(board, maxBoardSize, origin, player, d).piecesToFlip
    /\ \E player \in 1 .. 2 :
         \E k \in DOMAIN getValidMoves(board, maxBoardSize, player) :
           Cardinality(getValidMoves(board, maxBoardSize, player)[k]) >= 2

\* C24: when the cell next to the origin in the scanned direction is owned
\* by the scanning player (an anchor with no opponent cell in between),
\* findFlippablePieces returns false with an empty toFlip; an Empty origin
\* with no opponent cell next to it in any direction is no legal move.
C24_AdjacentAnchor ==
    pc = "ready" =>
      \A player \in 1 .. 2 :
        /\ \A origin \in Positions(maxBoardSize), d \in Compass :
              (OnBoard(Along(origin, d, 1), maxBoardSize) /\
               board[Along(origin, d, 1)] = player) =>
                 findFlippablePieces(board, maxBoardSize, origin, player, d)
                   = [piecesToFlip |-> FALSE, toFlip |-> {}]
        /\ \A origin \in Positions(maxBoardSize) :
              (\A d \in Compass :
                  OnBoard(Along(origin, d, 1), maxBoardSize) =>
                    board[Along(origin, d, 1)] # Opponent(player)) =>
                origin \notin DOMAIN getValidMoves(board, maxBoardSize, player)

\* an Empty origin whose neighbours are the player's own cell in one
\* direction and otherwise Empty or off the board: no legal move
C24_Witness ==
    /\ pc = "ready"
    /\ \E origin \in Positions(maxBoardSize), player \in 1 .. 2, d \in Compass :
         /\ board[origin] = EMPTY
         /\ OnBoard(Along(origin, d, 2), maxBoardSize)
         /\ board[Along(origin, d, 1)] = player
         /\ board[Along(origin, d, 2)] = Opponent(player)
         /\ \A e \in Compass :
               OnBoard(Along(origin, e, 1), maxBoardSize) =>
                 board[Along(origin, e, 1)] # Opponent(player)
         /\ origin \notin DOMAIN getValidMoves(board, maxBoardSize, player)

\* from origin in direction d: k opponent cells, then the board edge or an
\* Empty cell
RunThenNothing(b, n, origin, player, d, k) ==
    /\ \A j \in 1 .. k : /\ OnBoard(Along(origin, d, j), n)
                         /\ b[Along(origin, d, j)] = Opponent(player)
    /\ \/ ~OnBoard(Along(origin, d, k + 1), n)
       \/ b[Along(origin, d, k + 1)] = EMPTY

\* C25: when a run of one or more opponent cells from the origin ends at
\* the board edge or at an Empty cell with no anchor of the player,
\* findFlippablePieces returns false and toFlip is empty.
C25_RunWithoutAnchor ==
    pc = "ready" =>
      \A origin \in Positions(maxBoardSize), player \in 1 .. 2, d \in Compass,
         k \in 1 .. maxBoardSize :
        RunThenNothing(board, maxBoardSize, origin, player, d, k) =>
          findFlippablePieces(board, maxBoardSize, origin, player, d)
            = [piecesToFlip |-> FALSE, toFlip |-> {}]

\* from Empty origins: a run of two that ends at the board edge, and a run
\* that ends at an Empty cell
C25_Witness ==
    /\ pc = "ready"
    /\ \E origin \in Positions(maxBoardSize), player \in 1 .. 2, d \in Compass :
         /\ board[origin] = EMPTY
         /\ RunThenNothing(board, maxBoardSize, origin, player, d, 2)
         /\ ~OnBoard(Along(origin, d, 3), maxBoardSize)
    /\ \E origin \in Positions(maxBoardSize), player \in 1 .. 2, d \in Compass :
         /\ board[origin] = EMPTY
         /\ RunThenNothing(board, maxBoardSize, origin, player, d, 1)
         /\ OnBoard(Along(origin, d, 2), maxBoardSize)

\* a step of a game in progress
GameStep == pc \in {"loop", "select"}

\* C26: the move history is append-only within a game: it grows by exactly
\* one record on each applied move, does not change on a pass, and no record
\* is ever removed or altered, so the earlier history is a prefix of every
\* later one.
C26_HistoryAppendOnly ==
    [][ GameStep =>
          /\ Len(gameHistory') >= Len(gameHistory)
          /\ SubSeq(gameHistory', 1, Len(gameHistory)) = gameHistory
          /\ IF MoveStep
             THEN /\ Len(gameHistory') = Len(gameHistory) + 1
                  /\ gameHistory'[Len(gameHistory')]
                       = PlayerMove(currentPlayer, call'.position)
             ELSE gameHistory' = gameHistory ]_vars

\* a finished two-player game with a pass in it and seven or more records
C26_Witness ==
    /\ pc = "over"
    /\ playerCount = 2
    /\ Len(gameHistory) >= 7
    /\ \E i \in 1 .. Len(gameHistory) - 1 :
         gameHistory[i].thePlayer = gameHistory[i + 1].thePlayer

\* C27: in every state the board maps exactly the positions of
\* [0,N) x [0,N) to a cell, and every cell holds one of Empty (0), X (1),
\* O (2).
C27_BoardTotal ==
    pc \in {"loop", "select", "over"} =>
      /\ DOMAIN board = Positions(maxBoardSize)
      /\ \A p \in DOMAIN board : board[p] \in {EMPTY, PLAYER_X, PLAYER_O}

\* a 5 x 5 game in progress with flips made and cells of all three kinds
C27_Witness ==
    /\ pc = "loop"
    /\ maxBoardSize = 5
    /\ Len(gameHistory) >= 3
    /\ \A v \in {EMPTY, PLAYER_X, PLAYER_O} : \E p \in DOMAIN board : board[p] = v

\* C28: a cell once owned never becomes Empty again: the set of occupied
\* positions grows by exactly the placed position on each applied move and
\* does not change on any other step of the game.
C28_OccupiedGrows ==
    [][ GameStep =>
          LET before == {p \in DOMAIN board : board[p] # EMPTY}
              after == {p \in DOMAIN board' : board'[p] # EMPTY}
          IN IF MoveStep
             THEN /\ call'.position \notin before
                  /\ after = before \cup {call'.position}
             ELSE after = before ]_vars

\* a one-player game right after a pass, every placement still on the board
C28_Witness ==
    /\ pc = "loop"
    /\ playerCount = 1
    /\ ~prevPlayerMoved
    /\ Len(gameHistory) >= 5
    /\ \A i \in 1 .. Len(gameHistory) : board[gameHistory[i].theLocation] # EMPTY

\* C29: every move applied by the game loop flips at least one opponent
\* piece: with k captured positions, k >= 1, the mover's cell count grows by
\* exactly 1 + k and the opponent's falls by exactly k.
C29_MoveCaptures ==
    [][ MoveStep =>
          LET k == Cardinality(call'.toFlip)
              mover == currentPlayer
          IN /\ k >= 1
             /\ countOf(board', mover) = countOf(board, mover) + 1 + k
             /\ countOf(board', Opponent(mover))
                  = countOf(board, Opponent(mover)) - k ]_vars

\* a move that captured exactly two pieces
C29_Witness ==
    /\ pc = "loop"
    /\ prevPlayerMoved
    /\ call # NoCall
    /\ Cardinality(call.toFlip) = 2
    /\ \A q \in call.toFlip \cup {call.position} : board[q] = call.player

\* C30: the capture set applied by each placePiece call of the game loop is
\* the one getValidMoves(currentPlayer) yields for the chosen position on
\* the board as it is at the moment of placement: the map is computed anew
\* every turn and the board does not change between that and the placement.
C30_FreshCaptures ==
    [][ /\ (pc = "select" /\ pc' # "select") =>
             /\ call' # NoCall
             /\ call'.player = currentPlayer
             /\ call'.position
                  \in DOMAIN getValidMoves(board, maxBoardSize, currentPlayer)
             /\ call'.toFlip
                  = getValidMoves(board, maxBoardSize, currentPlayer)[call'.position]
        /\ (pc = "loop" /\ pc' = "select") =>
             /\ board' = board
             /\ validMoves' = getValidMoves(board, maxBoardSize, currentPlayer)
        /\ (pc = "select" /\ pc' = "select") =>
             /\ board' = board
             /\ validMoves' = validMoves ]_vars

\* the second move of X in a two-player game, applied with the captures
\* recorded in the call
C30_Witness ==
    /\ pc = "loop"
    /\ playerCount = 2
    /\ Len(gameHistory) = 3
    /\ call = PlaceCall(gameHistory[3].theLocation, PLAYER_X, call.toFlip)
    /\ call.toFlip # {}
    /\ \A q \in call.toFlip : board[q] = PLAYER_X

\* the first Empty cell of a capture argument in the iteration order of the
\* set, on board b
FirstEmpty(b, toFlip) ==
    CHOOSE e \in toFlip :
        /\ b[e] = EMPTY
        /\ \A q \in toFlip : b[q] = EMPTY => (q = e \/ PairLess(e, q))

C32_SelectorByPlayer ==
    [][ pc = "select" =>
          /\ selector' \in {"getAIMove", "getPlayerMove"}
          /\ selector' = "getAIMove" <=>
                (currentPlayer = PLAYER_O /\ playerCount = 1)
          /\ (currentPlayer = PLAYER_X \/ playerCount = 2) =>
                selector' = "getPlayerMove"
          /\ pc' = "select" => selector' = "getPlayerMove" ]_vars

\* a one-player game in which the agent has just moved for O, after a move
\* of X
C32_Witness ==
    /\ pc = "loop"
    /\ playerCount = 1
    /\ selector = "getAIMove"
    /\ Len(gameHistory) >= 2
    /\ gameHistory[Len(gameHistory)].thePlayer = PLAYER_O
    /\ gameHistory[1].thePlayer = PLAYER_X

\* C33: in every state of a game the number of records of the move history
\* is the number of occupied cells minus 4 (the seeded centre cells), so the
\* history never holds more than boardSize^2 - 4 records.
C33_HistoryCountsPlacements ==
    pc \in {"loop", "select", "over"} =>
      /\ Len(gameHistory) = Cardinality(Positions(maxBoardSize) \ Owned(EMPTY)) - 4
      /\ Len(gameHistory) <= maxBoardSize * maxBoardSize - 4

\* a finished game on the 5 x 5 board with ten or more records
C33_Witness ==
    /\ pc = "over"
    /\ maxBoardSize = 5
    /\ Len(gameHistory) >= 10
    /\ Len(gameHistory) + 4 + Cardinality(Owned(EMPTY)) = 25

\* C34: each game started by the replay loop of main begins from the same
\* state however the game before ended: a newly built board with only the
\* four centre cells occupied, X active, no pass pending and an empty
\* history; nothing of the finished game carries over.
C34_ReplayStartsFresh ==
    [][ (pc = "start" /\ pc' = "loop") =>
          /\ board' = FreshBoard(maxBoardSize')
          /\ currentPlayer' = PLAYER_X
          /\ nextPlayer' = PLAYER_O
          /\ prevPlayerMoved'
          /\ gameHistory' = << >>
          /\ thrown' = "none" ]_vars

\* a replay about to start on what a finished game with a pass at its end
\* left behind
C34_Witness ==
    /\ pc = "start"
    /\ gameHistory # << >>
    /\ ~prevPlayerMoved
    /\ board # FreshBoard(maxBoardSize)
    /\ winner # "none"

\* ------------------------------------------------------ AVLTree: helpers
\* the height of node counted from its shape: nullptr -1, a leaf 0
RECURSIVE shapeHeight(_)
shapeHeight(node) ==
    IF node = Null THEN -1
    ELSE 1 + Max(shapeHeight(left(node)), shapeHeight(right(node)))

\* every node under node, node itself included
RECURSIVE nodesUnder(_)
nodesUnder(node) ==
    IF node = Null THEN {}
    ELSE {node} \cup nodesUnder(left(node)) \cup nodesUnder(right(node))

\* the values stored under node
valuesUnder(node) == {data(n) : n \in nodesUnder(node)}

\* how many nodes under node hold value
RECURSIVE occurrences(_, _)
occurrences(node, value) ==
    IF node = Null THEN 0
    ELSE (IF data(node) = value THEN 1 ELSE 0)
         + occurrences(left(node), value) + occurrences(right(node), value)

Balanced(node) ==
    LET d == shapeHeight(left(node)) - shapeHeight(right(node))
    IN  d \in {-1, 0, 1}

\* C35 as stated: after any sequence of insert and remove calls on an
\* initially empty tree, at every node the two subtree heights differ by at
\* most 1, the stored height is the actual height, and the values of the
\* left subtree are smaller than the node's value, which is at most the
\* values of the right subtree
C35_StrictSearchTree ==
    \A node \in nodesUnder(root) :
        /\ Balanced(node)
        /\ get_height(node) = shapeHeight(node)
        /\ \A v \in valuesUnder(left(node)) : v < data(node)
        /\ \A v \in valuesUnder(right(node)) : data(node) <= v

\* C35 (amended): after any sequence of insert and remove calls on an
\* initially empty tree, at every node the two subtree heights differ by at
\* most 1, the stored height is the actual height, and the values of the
\* left subtree are at most the node's value, which is at most the values
\* of the right subtree; an equal value is in the left subtree only when
\* the value is stored more than once
C35_BalancedSearchTree ==
    \A node \in nodesUnder(root) :
        /\ Balanced(node)
        /\ get_height(node) = shapeHeight(node)
        /\ \A v \in valuesUnder(left(node)) :
              \/ v < data(node)
              \/ v = data(node) /\ occurrences(root, v) > 1
        /\ \A v \in valuesUnder(right(node)) : data(node) <= v

\* a removal has left a tree of three levels in which a node has its own
\* value in its left subtree
C35_Witness ==
    /\ returned.op = "remove" /\ returned.result = TRUE
    /\ shapeHeight(root) = 2
    /\ \E node \in nodesUnder(root) : data(node) \in valuesUnder(left(node))

\* the smallest of a non-empty set of values
Smallest(values) == CHOOSE v \in values : \A w \in values : v <= w

\* C36: remove(value) returns false exactly when value is not stored, and
\* then the tree is unchanged; when it returns true one occurrence of value
\* is gone and every other value is stored as often as before; a root with
\* two children that held value and stays the root holds the smallest value
\* of its right subtree afterwards
C36_RemoveOne ==
    [][returned'.op = "remove" =>
          LET value == returned'.value
          IN  /\ returned'.result \in BOOLEAN
              /\ (returned'.result = FALSE) <=> (occurrences(root, value) = 0)
              /\ returned'.result = FALSE => root' = root
              /\ returned'.result = TRUE =>
                    \A v \in 1 .. MaxValue :
                        occurrences(root', v) =
                            occurrences(root, v) - (IF v = value THEN 1 ELSE 0)
              /\ (/\ root # Null
                  /\ data(root) = value
                  /\ left(root) # Null /\ right(root) # Null
                  /\ left(root') = left(root))
                    => data(root') = Smallest(valuesUnder(right(root)))
    ]_vars

\* remove returned true on a tree of MaxNodes nodes and the value is still
\* stored: it was stored more than once
C36_Witness ==
    /\ returned.op = "remove" /\ returned.result = TRUE
    /\ nodeCount(root) = MaxNodes - 1
    /\ occurrences(root, returned.value) >= 1

\* C37: find(value) returns a node holding value when value is stored and
\* nullptr when it is not, and leaves the root and every node as they were
C37_FindLeavesTree ==
    [][returned'.op = "find" =>
          LET value == returned'.value
          IN  /\ occurrences(root, value) > 0 =>
                    /\ returned'.result # Null
                    /\ data(returned'.result) = value
              /\ occurrences(root, value) = 0 => returned'.result = Null
              /\ root' = root
    ]_vars

\* the part of C37 about the return value alone
C37_FindReturns ==
    [][returned'.op = "find" =>
          LET value == returned'.value
          IN  /\ occurrences(root, value) > 0 =>
                    /\ returned'.result # Null
                    /\ data(returned'.result) = value
              /\ occurrences(root, value) = 0 => returned'.result = Null
    ]_vars

====
